---- MODULE Spec2Model ----
(***************************************************************************)
(* Model of the access granting and verification daemon                    *)
(* (src/resources/access.c).                                               *)
(*                                                                         *)
(* LPC values are modelled as tagged records:                              *)
(*   [t |-> "int", v |-> n]   an integer; 0 is also LPC's nil, so a key    *)
(*                            that is absent from a mapping reads as 0 and *)
(*                            assigning 0 to a key deletes the key         *)
(*   [t |-> "map", m |-> f]   a mapping; f is a function from keys to      *)
(*                            values, none of them 0                       *)
(*   [t |-> "arr", a |-> s]   an array of strings (the "?" node)           *)
(* A path is the sequence of its "/"-separated pieces, as explode(path,    *)
(* "/") yields them for an absolute path.                                  *)
(***************************************************************************)
EXTENDS Integers, Sequences, FiniteSets, TLC

VARIABLES access_map, access_map_default, shared, ops, last, pre

vars == <<access_map, access_map_default, shared, ops, last, pre>>

-----------------------------------------------------------------------------
(* Access levels (header comment of access.c, <access.h>).                 *)
REVOKED == 0 - 1
NO_ACCESS == 0
READ == 1
GRANT_READ == 2
WRITE == 3
GRANT_WRITE == 4
GRANT_GRANT == 5

(* Model bounds.                                                           *)
MaxOps == 2

-----------------------------------------------------------------------------
(* LPC values.                                                             *)
NIL == [t |-> "int", v |-> 0]
I(n) == [t |-> "int", v |-> n]
M(f) == [t |-> "map", m |-> f]
A(s) == [t |-> "arr", a |-> s]
EmptyMap == M([k \in {} |-> NIL])

mapp(x) == x.t = "map"
intp(x) == x.t = "int"
arrayp(x) == x.t = "arr"
Truthy(x) == x # NIL

(* map[k]: 0 when k is absent.                                             *)
Idx(map, k) == IF k \in DOMAIN map.m THEN map.m[k] ELSE NIL

(* map[k] read into an int variable.                                       *)
IntIdx(map, k) == Idx(map, k).v

(* map[k] = x: assigning 0 removes the key.                                *)
Put(map, k, x) ==
    IF x = NIL
    THEN M([y \in DOMAIN map.m \ {k} |-> map.m[y]])
    ELSE M([y \in DOMAIN map.m \cup {k} |-> IF y = k THEN x ELSE map.m[y]])

keys(map) == DOMAIN map.m

(* The mapping reached from 'map' by following the keys of 'pre'.          *)
RECURSIVE At(_, _)
At(map, p) == IF p = <<>> THEN map ELSE At(Idx(map, Head(p)), Tail(p))

(* map[p1][p2]...[pn][k] = x on mappings that are shared by reference.     *)
RECURSIVE PutAt(_, _, _, _)
PutAt(map, p, k, x) ==
    IF p = <<>> THEN Put(map, k, x)
    ELSE Put(map, Head(p), PutAt(Idx(map, Head(p)), Tail(p), k, x))

(* A mapping literal from a sequence of <<key, value>> pairs.              *)
RECURSIVE Lit(_)
Lit(s) == IF s = <<>> THEN EmptyMap
          ELSE Put(Lit(Tail(s)), Head(s)[1], Head(s)[2])

(* The order in which map_indices() lists the keys of the model (strings   *)
(* in ascending byte order).                                               *)
KeyOrder == << "*", ".", "?", "Arch_docs", "Arch_full", "Arch_junior",
               "Arch_law", "Arch_qc", "Arch_web", "Driver", "Elandar", "Law",
               "accounts", "aedil", "b", "backbone", "bambi", "banish", "c",
               "characters", "d", "data", "dgd", "doc", "e", "foo", "frogo",
               "help", "keep", "kralk", "log", "old", "open", "players", "qc",
               "root", "sys", "tmp", "www_docs" >>

Rank(k) == CHOOSE i \in 1..Len(KeyOrder) : KeyOrder[i] = k

FirstKey(map) ==
    CHOOSE k \in keys(map) : \A y \in keys(map) : Rank(k) <= Rank(y)

-----------------------------------------------------------------------------
(* create(): the fixed name lists.                                         *)
s_grps == {"Arch_full", "Arch_docs", "Arch_qc", "Arch_junior", "Arch_law",
           "Arch_web"}
admins == {"moreldir", "kralk", "cryzeck"}
fusers == {"*", "backbone", "root"}

(* Names that differ from their lower_case() form: the access groups.      *)
Capitalized == s_grps \cup {"Elandar"}
IsGroup(user) == user \in Capitalized

(* lookup_chardata(user, "level"), as the tier it falls in.                *)
Tier(user) == CASE user = "aedil" -> "archwizard"
                [] user = "kralk" -> "archwizard"
                [] OTHER -> "wizard"
GeArchwizard(l) == l = "archwizard"
GeJuniorArch(l) == l \in {"junior_arch", "elder", "archwizard"}

(* D_ARCHGROUP->query_data(user): the arch groups of a player.             *)
ArchData(user) == IF user = "bambi" THEN <<"docs">> ELSE <<>>
ArchName(g) == CASE g = "docs" -> "Arch_docs"
                 [] g = "law" -> "Arch_law"
                 [] g = "qc" -> "Arch_qc"
                 [] OTHER -> "Arch_web"

(* create(): the static default access privileges.                         *)
DefaultPrivileges ==
    Lit(<< <<"*", I(READ)>>,
           <<"characters", I(REVOKED)>>,
           <<"d", Lit(<< <<"*", I(REVOKED)>>, <<".", I(READ)>> >>)>>,
           <<"players", Lit(<< <<"*", I(REVOKED)>>, <<".", I(READ)>> >>)>>,
           <<"data", I(REVOKED)>>,
           <<"tmp", I(WRITE)>>,
           <<"log", Lit(<< <<"*", I(READ)>>, <<"Driver", I(REVOKED)>>,
                           <<"old", I(REVOKED)>> >>)>>,
           <<"banish", I(REVOKED)>>,
           <<"accounts", I(REVOKED)>>,
           <<"dgd", I(REVOKED)>> >>)

(* create(): the database seeded when there is no savefile.                *)
SeededDatabase ==
    Lit(<< <<"*", DefaultPrivileges>>,
           <<"backbone", Lit(<< <<"*", I(WRITE)>> >>)>>,
           <<"root", Lit(<< <<"*", I(WRITE)>> >>)>>,
           <<"Arch_full", Lit(<< <<"*", I(GRANT_WRITE)>> >>)>>,
           <<"Arch_junior", Lit(<< <<"d", I(WRITE)>>,
                                   <<"players", I(WRITE)>> >>)>>,
           <<"Arch_docs", Lit(<< <<"help", I(WRITE)>>,
                                 <<"doc", I(WRITE)>> >>)>>,
           <<"Arch_law", Lit(<< <<"data", Lit(<< <<"Law", I(WRITE)>> >>)>> >>)>>,
           <<"Arch_qc", Lit(<< <<"data", Lit(<< <<"qc", I(WRITE)>> >>)>> >>)>>,
           <<"Arch_web", Lit(<< <<"data",
                                  Lit(<< <<"www_docs", I(WRITE)>> >>)>> >>)>> >>)

-----------------------------------------------------------------------------
(* _resolve(path, caller, cwd, flag) for an absolute path: one pass from   *)
(* the last piece to the first.  'skip' counts the ".." pieces not yet     *)
(* used up, 'out' is parts[j ..].                                          *)
RECURSIVE ResolveFrom(_, _, _, _, _)
ResolveFrom(parts, i, skip, flag, out) ==
    IF i = 0 THEN out
    ELSE LET p == parts[i] IN
         IF p = "" THEN ResolveFrom(parts, i - 1, skip, flag, out)
         ELSE IF p = ".." THEN ResolveFrom(parts, i - 1, skip + 1, flag, out)
         ELSE IF p = "." /\ ~flag THEN ResolveFrom(parts, i - 1, skip, flag, out)
         ELSE IF skip > 0 THEN ResolveFrom(parts, i - 1, skip - 1, flag, out)
         ELSE ResolveFrom(parts, i - 1, skip, flag, <<p>> \o out)

(* _resolve that keeps the "." pieces whatever the flag.                   *)
(* ResolveCollapses tells the two apart.                                   *)
_resolve_dots(path, flag) == ResolveFrom(path, Len(path), 0, TRUE, <<>>)

_resolve(path, flag) == ResolveFrom(path, Len(path), 0, flag, <<>>)

-----------------------------------------------------------------------------
(* query_groups(user): the groups 'user' is a member of.  The result is    *)
(* [res, db, saved]: the list, the database after the call and whether     *)
(* save_db() was called.                                                   *)
RECURSIVE ArchGroups(_, _)
ArchGroups(db, names) ==
    IF names = <<>> THEN <<>>
    ELSE LET tmp == ArchName(Head(names)) IN
         (IF mapp(Idx(db, tmp)) THEN <<tmp>> ELSE <<>>)
             \o ArchGroups(db, Tail(names))

InSeq(x, s) == \E i \in 1..Len(s) : s[i] = x

RECURSIVE Without(_, _)
Without(s, x) ==
    IF s = <<>> THEN <<>>
    ELSE (IF Head(s) = x THEN <<>> ELSE <<Head(s)>>) \o Without(Tail(s), x)

(* The loop over the arch groups: st = [res, ugroupsa].                    *)
RECURSIVE AddGroups(_, _, _)
AddGroups(db, groups, st) ==
    IF groups = <<>> THEN st
    ELSE LET g == Head(groups) IN
         AddGroups(db, Tail(groups),
             IF InSeq(g, st.res) THEN st
             ELSE IF ~Truthy(Idx(db, g))
                  THEN [st EXCEPT !.ugroupsa = Without(st.ugroupsa, g)]
                  ELSE [st EXCEPT !.res = Append(st.res, g)])

(* WriteBack that stores the returned list at every call, the automatic    *)
(* groups included.  EvaluationKeepsTrees tells the two apart.             *)
WriteBackAlways(db, user, ugroups, st) ==
    [res |-> st.res,
     db |-> IF mapp(Idx(db, user))
            THEN PutAt(db, <<user>>, "?",
                       IF st.res = <<>> THEN NIL ELSE A(st.res))
            ELSE db,
     saved |-> mapp(Idx(db, user))]

(* The end of query_groups: the explicit list is written back, and the     *)
(* database saved, only when the pruning changed its length.               *)
WriteBack(db, user, ugroups, st) ==
    [res |-> st.res,
     db |-> IF Len(st.ugroupsa) # Len(ugroups)
            THEN PutAt(db, <<user>>, "?",
                       IF st.ugroupsa = <<>> THEN NIL ELSE A(st.ugroupsa))
            ELSE db,
     saved |-> Len(st.ugroupsa) # Len(ugroups)]

(* query_groups(user) on database db: [res, db, saved].                    *)
query_groups(db, user) ==
    IF user \in fusers \/ IsGroup(user)
    THEN [res |-> <<>>, db |-> db, saved |-> FALSE]
    ELSE
    LET groups == ArchGroups(db, ArchData(user))
        um == Idx(db, user)
        res0 == IF mapp(um) /\ arrayp(Idx(um, "?")) THEN Idx(um, "?").a
                ELSE <<>>
        full == mapp(Idx(db, "Arch_full"))
        l == IF full THEN Tier(user) ELSE "none"
        res1 == IF full /\ GeArchwizard(l) THEN Append(res0, "Arch_full")
                ELSE IF mapp(Idx(db, "Arch_junior")) /\ GeJuniorArch(l)
                        /\ l # "elder"
                     THEN Append(res0, "Arch_junior")
                     ELSE res0
    IN  WriteBack(db, user, res0,
                  AddGroups(db, groups, [res |-> res1, ugroupsa |-> res0]))

(* subtract_map(map, exclude) for a single excluded key.                   *)
subtract_map(map, exclude) ==
    M([k \in keys(map) \ {exclude} |-> map.m[k]])

(* get_access_maps(user): the list of <<name, map>> pairs, given the       *)
(* database left by query_groups and the groups it returned.               *)
get_access_maps(db, groups, user) ==
    LET s == Len(groups)
        map == Idx(db, user)
        gmaps == [i \in 1..s |-> <<groups[i], Idx(db, groups[i])>>]
        dflt == << <<"*", Idx(db, "*")>> >>
    IN  IF Truthy(map)
        THEN IF s > 0
             THEN << <<user, subtract_map(IF mapp(map) THEN map ELSE EmptyMap,
                                          "?")>> >> \o gmaps \o dflt
             ELSE << <<user, map>> >> \o dflt
        ELSE IF s > 0 THEN gmaps \o dflt
        ELSE dflt

(* eval_map without the "obey final '.' control" branch: a branch on the   *)
(* final part gives its "*" like any other part.  ExampleLevels tells the  *)
(* two apart.                                                              *)
eval_map_nodot(part, map, dfl, final) ==
    IF Truthy(map)
    THEN IF Truthy(Idx(map, part))
         THEN IF intp(Idx(map, part))
              THEN [acc |-> Idx(map, part).v, nxt |-> NIL, err |-> FALSE]
              ELSE IF ~mapp(Idx(map, part))
              THEN [acc |-> 0, nxt |-> NIL, err |-> TRUE]
              ELSE [acc |-> IF dfl = 0 \/ IntIdx(Idx(map, part), "*") # 0
                            THEN IntIdx(Idx(map, part), "*")
                            ELSE dfl,
                    nxt |-> Idx(map, part), err |-> FALSE]
         ELSE [acc |-> IF IntIdx(map, "*") # 0 THEN IntIdx(map, "*") ELSE dfl,
               nxt |-> NIL, err |-> FALSE]
    ELSE [acc |-> dfl, nxt |-> map, err |-> FALSE]

(* eval_map whose "part not found in map" case gives the "*" of the map    *)
(* alone, without falling back on dfl.  WinnerNeverLater tells the two     *)
(* apart.                                                                  *)
eval_map_nodfl(part, map, dfl, final) ==
    IF Truthy(map)
    THEN IF Truthy(Idx(map, part))
         THEN IF intp(Idx(map, part))
              THEN [acc |-> Idx(map, part).v, nxt |-> NIL, err |-> FALSE]
              ELSE IF ~mapp(Idx(map, part))
              THEN [acc |-> 0, nxt |-> NIL, err |-> TRUE]
              ELSE [acc |-> IF dfl = 0 THEN IntIdx(Idx(map, part), "*")
                            ELSE IF final /\ IntIdx(Idx(map, part), ".") # 0
                                 THEN IntIdx(Idx(map, part), ".")
                            ELSE IF ~final
                                    /\ IntIdx(Idx(map, part), "*") # 0
                                 THEN IntIdx(Idx(map, part), "*")
                            ELSE dfl,
                    nxt |-> Idx(map, part), err |-> FALSE]
         ELSE [acc |-> IntIdx(map, "*"), nxt |-> NIL, err |-> FALSE]
    ELSE [acc |-> dfl, nxt |-> map, err |-> FALSE]

(* eval_map(part, list, idx, dfl, final) on map = list[idx]: the result is *)
(* [acc, nxt, err]: the level returned, the new list[idx], and whether the *)
(* call indexed a value that is no mapping.                                *)
eval_map(part, map, dfl, final) ==
    IF Truthy(map)
    THEN LET star == IntIdx(map, "*")
             acc0 == IF star # 0 THEN star ELSE dfl
             v == Idx(map, part)
         IN  IF Truthy(v)
             THEN IF intp(v)
                  THEN [acc |-> v.v, nxt |-> NIL, err |-> FALSE]
                  ELSE IF ~mapp(v)
                  THEN [acc |-> 0, nxt |-> NIL, err |-> TRUE]
                  ELSE [acc |-> IF dfl = 0 THEN IntIdx(v, "*")
                                ELSE IF final /\ IntIdx(v, ".") # 0
                                     THEN IntIdx(v, ".")
                                ELSE IF ~final /\ IntIdx(v, "*") # 0
                                     THEN IntIdx(v, "*")
                                ELSE dfl,
                        nxt |-> v, err |-> FALSE]
             ELSE [acc |-> acc0, nxt |-> NIL, err |-> FALSE]
    ELSE [acc |-> dfl, nxt |-> map, err |-> FALSE]

(* EvalPart that consults every map on every part, j being the first map   *)
(* whose level is not 0.  SegmentStopsAtFirst tells the two apart.         *)
RECURSIVE EvalPartAll(_, _, _, _)
EvalPartAll(part, final, st, j) ==
    IF j >= Len(st.maps)
    THEN [st EXCEPT !.j = IF \E k \in 1..Len(st.dfls) : st.dfls[k] # 0
                          THEN (CHOOSE k \in 1..Len(st.dfls) :
                                   /\ st.dfls[k] # 0
                                   /\ \A n \in 1..(k - 1) : st.dfls[n] = 0) - 1
                          ELSE Len(st.maps)]
    ELSE EvalPartAll(part, final,
             [maps |-> [st.maps EXCEPT ![j + 1] =
                           eval_map(part, st.maps[j + 1], st.dfls[j + 1],
                                    final).nxt],
              dfls |-> [st.dfls EXCEPT ![j + 1] =
                           eval_map(part, st.maps[j + 1], st.dfls[j + 1],
                                    final).acc],
              j |-> j,
              err |-> st.err \/ eval_map(part, st.maps[j + 1],
                                         st.dfls[j + 1], final).err],
             j + 1)

(* The inner loop of _get_access over the maps, from index j (0-based):    *)
(* st = [maps, dfls, j, err]; it stops at the first map whose level is     *)
(* not 0 and leaves j = mapc when there is none.                           *)
RECURSIVE EvalPart(_, _, _, _)
EvalPart(part, final, st, j) ==
    IF j >= Len(st.maps) THEN [st EXCEPT !.j = j]
    ELSE LET r == eval_map(part, st.maps[j + 1], st.dfls[j + 1], final)
             st2 == [maps |-> [st.maps EXCEPT ![j + 1] = r.nxt],
                     dfls |-> [st.dfls EXCEPT ![j + 1] = r.acc],
                     j |-> j, err |-> st.err \/ r.err]
         IN  IF r.err \/ r.acc # 0 THEN st2
             ELSE EvalPart(part, final, st2, j + 1)

(* The outer loop over the parts, from part i (1-based).                   *)
RECURSIVE EvalParts(_, _, _)
EvalParts(parts, i, st) ==
    IF i > Len(parts) \/ st.err THEN st
    ELSE EvalParts(parts, i + 1,
                   EvalPart(parts[i], i = Len(parts), st, 0))

(* The pre-check for character files: sscanf(path, "/characters/%*s/" +    *)
(* user) when the caller is a clone of the player object.                  *)
IsOwnCharacterFile(path, user) ==
    /\ Len(path) >= 3
    /\ path[1] = "characters"
    /\ \E i \in 3..Len(path) : path[i] = user

(* RuledCase without the test on j and mapc: the ruled levels would apply  *)
(* whichever map gave the level.  OwnTreeWins tells the two apart.         *)
RuledCaseAnyMap(sz, parts, j, mapc) ==
    sz >= 2 /\ parts[1] \in {"d", "players"}

(* The special cases after the evaluation of the path: the test that       *)
(* guards the two ruled levels.                                            *)
RuledCase(sz, parts, j, mapc) ==
    sz >= 2 /\ parts[1] \in {"d", "players"} /\ (j # 0 \/ mapc = 1)

(* The result of _get_access: [acc, src, j, mapc, gen, err].  acc and src  *)
(* are the pair returned, j the index of the map that gave the final       *)
(* level, gen that level (0 when no map gave one), err a runtime error.    *)
Faulted(j, mapc) ==
    [acc |-> 0, src |-> "", j |-> j, mapc |-> mapc, gen |-> 0, err |-> TRUE]

(* The end of _get_access, after the loops left st = [maps, dfls, j, err]: *)
(* the ruled levels, then ({ dfls[j], maps[j][0] }), which indexes out of  *)
(* range when no map gave a level (j = mapc).                              *)
Settle(user, maps, parts, st) ==
    LET mapc == Len(maps)
        sz == Len(parts)
        j == st.j
        gen == IF j < mapc THEN st.dfls[j + 1] ELSE 0
    IN  IF st.err THEN Faulted(j, mapc)
        ELSE IF RuledCase(sz, parts, j, mapc) /\ parts[2] = user
             THEN [acc |-> GRANT_GRANT, src |-> "!", j |-> j, mapc |-> mapc,
                   gen |-> gen, err |-> FALSE]
        ELSE IF RuledCase(sz, parts, j, mapc) /\ sz >= 3 /\ parts[3] = "open"
             THEN [acc |-> READ, src |-> "!", j |-> j, mapc |-> mapc,
                   gen |-> gen, err |-> FALSE]
        ELSE IF j >= mapc THEN Faulted(j, mapc)
        ELSE [acc |-> gen, src |-> maps[j + 1][1], j |-> j, mapc |-> mapc,
              gen |-> gen, err |-> FALSE]

(* The two loops of _get_access over the parts and the maps.               *)
Consult(user, maps, parts) ==
    Settle(user, maps, parts,
           EvalParts(parts, 1,
               [maps |-> [i \in 1..Len(maps) |-> maps[i][2]],
                dfls |-> [i \in 1..Len(maps) |-> IntIdx(maps[i][2], "*")],
                j |-> 0, err |-> FALSE]))

(* _get_access(path, user, maps); prev_is_player says whether the caller   *)
(* is a clone of the player object.  A map that is nil faults when its     *)
(* "*" is read.                                                            *)
_get_access(path, user, maps, prev_is_player) ==
    IF prev_is_player /\ IsOwnCharacterFile(path, user)
    THEN [acc |-> WRITE, src |-> "!", j |-> 0, mapc |-> 0, gen |-> 0,
          err |-> FALSE]
    ELSE IF \E i \in 1..Len(maps) : ~mapp(maps[i][2])
         THEN Faulted(0, Len(maps))
         ELSE Consult(user, maps, _resolve(path, FALSE))

(* _get_access(path, user) without the maps argument: the maps are those   *)
(* of get_access_maps(user), whose call of query_groups gave q.            *)
Evaluated(q, path, user, prev_is_player) ==
    _get_access(path, user, get_access_maps(q.db, q.res, user),
                prev_is_player)

(* get_access(path, user) on database db, the daemon having been called by *)
(* an object other than a player object.                                   *)
get_access(db, path, user) ==
    Evaluated(query_groups(db, user), path, user, FALSE)

-----------------------------------------------------------------------------
(* grant_access(path, user, acctype) called by player 'ply'.               *)

(* reqtype as a threshold on the numeric level: every level from the      *)
(* lowest listed one up, WRITE included.  GrantTierAuthorizes tells the    *)
(* two apart.                                                              *)
reqtype_from(acctype) ==
    CASE acctype \in {NO_ACCESS, REVOKED, READ} -> GRANT_READ..GRANT_GRANT
      [] acctype \in {GRANT_READ, WRITE} -> GRANT_WRITE..GRANT_GRANT
      [] OTHER -> {GRANT_GRANT}

(* The access types that allow granting 'acctype'.                         *)
reqtype(acctype) ==
    CASE acctype \in {NO_ACCESS, REVOKED, READ} ->
             {GRANT_READ, GRANT_WRITE, GRANT_GRANT}
      [] acctype \in {GRANT_READ, WRITE} -> {GRANT_WRITE, GRANT_GRANT}
      [] OTHER -> {GRANT_GRANT}

(* The loop that follows parts[0 .. sz-1] from access_map[user] through    *)
(* mappings only: the mapping reached, or 0.                               *)
RECURSIVE Descend(_, _, _, _)
Descend(map, parts, i, sz) ==
    IF i >= sz THEN map
    ELSE IF ~mapp(map) \/ ~mapp(Idx(map, parts[i + 1])) THEN NIL
    ELSE Descend(Idx(map, parts[i + 1]), parts, i + 1, sz)

First(parts, n) == IF n <= 0 THEN <<>> ELSE SubSeq(parts, 1, n)

(* The outcome of a call: the database it leaves, the value returned,      *)
(* whether it ended in a runtime error and whether save_db() was called.   *)
Outcome(db, ret, err, saved) ==
    [db |-> db, ret |-> ret, err |-> err, saved |-> saved]

(* acctype == NO_ACCESS, the steps after the node is removed.  Each takes  *)
(* the database its predecessor left.                                      *)

(* The return of the removal without the save_db() before it.             *)
(* SavedBeforeReturn tells the two apart.                                  *)
RemovedUnsaved(db, user) ==
    Outcome(db, IF Truthy(Idx(db, user)) THEN 1 ELSE 2, FALSE, FALSE)

(* "return (access_map[user] ? 1 : 2)" after save_db().                    *)
Removed(db, user) ==
    Outcome(db, IF Truthy(Idx(db, user)) THEN 1 ELSE 2, FALSE, TRUE)

(* "if user has no more access nodes... remove users access map".          *)
RemoveUser(db, user) ==
    Removed(IF keys(Idx(db, user)) = {} THEN Put(db, user, NIL) ELSE db, user)

(* "if branch holds no more nodes... remove branch": 'where' is the place  *)
(* of the mapping 'map' refers to at that point.  The loop stops at        *)
(* i = sz - 2 (0 when that is negative) and parts[i] is removed from the   *)
(* mapping reached.                                                        *)
RemoveBranch(db, user, parts, sz, where) ==
    LET i == IF sz - 2 > 0 THEN sz - 2 ELSE 0
    IN  RemoveUser(IF keys(At(db, where)) = {}
                   THEN PutAt(db, <<user>> \o First(parts, i), parts[i + 1],
                              NIL)
                   ELSE db,
                   user)

(* "convert from mapping to integer", once "." is removed from the branch: *)
(* with one key left, parts[sz-1] of the parent becomes branch[k], k being *)
(* "*" or else the first index of the parent.  In                          *)
(*     map[parts[i]] = map[parts[i++]][k]                                  *)
(* the index of the assigned element is taken before the value is          *)
(* computed, so both sides use parts[sz-1].  'map' then refers to the      *)
(* parent.                                                                 *)
FoldBranch(db, user, parts, sz) ==
    LET at == <<user>> \o First(parts, sz)
        up == <<user>> \o First(parts, sz - 1)
        branch == Idx(At(db, up), parts[sz])
        k == IF Truthy(Idx(branch, "*")) THEN "*" ELSE FirstKey(At(db, up))
    IN  IF Cardinality(keys(At(db, at))) = 1
        THEN RemoveBranch(PutAt(db, up, parts[sz], Idx(branch, k)), user,
                          parts, sz, up)
        ELSE RemoveBranch(db, user, parts, sz, at)

(* "if branch holds only one node...": the test and map["."] = 0.          *)
CompactBranch(db, user, parts, sz) ==
    LET at == <<user>> \o First(parts, sz)
        branch == At(db, at)
    IN  IF /\ sz >= 2
           /\ Cardinality(keys(branch)) \in {1, 2}
           /\ (Truthy(Idx(branch, "*")) \/ Truthy(Idx(branch, ".")))
        THEN FoldBranch(PutAt(db, at, ".", NIL), user, parts, sz)
        ELSE RemoveBranch(db, user, parts, sz, at)

(* The revoke branch on the resolved parts: "does 'user' have any access   *)
(* to 'path' (in personal access map)?", then "remove... node from         *)
(* branch".  An empty parts array faults at parts[0].                      *)
RemoveParts(db, user, parts, found) ==
    IF ~Truthy(found) THEN Outcome(db, 0, FALSE, FALSE)
    ELSE IF parts = <<>> THEN Outcome(db, 0, TRUE, FALSE)
    ELSE IF ~Truthy(Idx(found, parts[Len(parts)]))
         THEN Outcome(db, 0, FALSE, FALSE)
    ELSE CompactBranch(PutAt(db, <<user>> \o First(parts, Len(parts) - 1),
                             parts[Len(parts)], NIL),
                       user, parts, Len(parts) - 1)

RemoveLookup(db, user, parts) ==
    RemoveParts(db, user, parts,
                Descend(Idx(db, user), parts, 0, Len(parts) - 1))

(* acctype == NO_ACCESS: remove a node.                                    *)
RemoveNode(db, path, user) == RemoveLookup(db, user, _resolve(path, TRUE))

(* "already have 'acctype' to 'path'?": "yes" when grant_access returns 0  *)
(* there, "err" when the check indexes parts[0] of an empty array.         *)
GroupHas(map, parts, acctype) ==
    IF ~Truthy(map) THEN "no"
    ELSE IF parts = <<>> THEN "err"
    ELSE IF Idx(map, parts[Len(parts)]) = I(acctype) THEN "yes" ELSE "no"

GroupLookup(db, user, parts, acctype) ==
    GroupHas(Descend(Idx(db, user), parts, 0, Len(parts) - 1), parts, acctype)

AlreadyGranted(db, path, user, acctype) ==
    IF ~IsGroup(user) THEN "yes"
    ELSE GroupLookup(db, user, _resolve(path, TRUE), acctype)

(* The rest of the loop over parts[0 .. sz-1] once a part is no mapping:   *)
(* empty mappings for the parts that remain.                               *)
RECURSIVE Fill(_, _, _)
Fill(db, at, rest) ==
    IF rest = <<>> THEN db
    ELSE Fill(PutAt(db, at, Head(rest), EmptyMap), at \o <<Head(rest)>>,
              Tail(rest))

(* A leaf that gets a child becomes a branch with the leaf's level as its  *)
(* "." and its "*".                                                        *)
Split(v) == IF Truthy(v) THEN Lit(<< <<".", v>>, <<"*", v>> >>) ELSE EmptyMap

(* The loop over parts[0 .. sz-1]: [db, err].                              *)
RECURSIVE Walk(_, _, _)
Walk(db, at, rest) ==
    IF rest = <<>> THEN [db |-> db, err |-> FALSE]
    ELSE IF intp(Idx(At(db, at), Head(rest)))
         THEN [db |-> Fill(PutAt(db, at, Head(rest),
                                 Split(Idx(At(db, at), Head(rest)))),
                           at \o <<Head(rest)>>, Tail(rest)),
               err |-> FALSE]
    ELSE IF mapp(Idx(At(db, at), Head(rest)))
         THEN Walk(db, at \o <<Head(rest)>>, Tail(rest))
    ELSE [db |-> db, err |-> TRUE]

(* "now add the new access privileges...": the branches on the last part.  *)

(* "remove obsolete node": every integer node of the level equal to        *)
(* acctype.                                                                *)
RemoveObsolete(map, acctype) ==
    M([k \in {y \in keys(map) : map.m[y] # I(acctype)} |-> map.m[k]])

(* "if remaining subtree has only one node left, convert...": the branch   *)
(* parts[sz-1] of the parent becomes the integer acctype.                  *)
ConvertBranch(db, user, parts, sz, acctype) ==
    IF sz > 0 /\ Cardinality(keys(At(db, <<user>> \o First(parts, sz)))) = 1
    THEN PutAt(db, <<user>> \o First(parts, sz - 1), parts[sz], I(acctype))
    ELSE db

(* "... && map["*"] == map["."]) map["."] = 0".                            *)
DropDot(db, user, parts, sz, acctype) ==
    LET at == <<user>> \o First(parts, sz)
        map == At(db, at)
    IN  ConvertBranch(IF /\ Cardinality(keys(map)) = 2
                         /\ Truthy(Idx(map, "*"))
                         /\ Idx(map, "*") = Idx(map, ".")
                      THEN PutAt(db, at, ".", NIL)
                      ELSE db,
                      user, parts, sz, acctype)

(* "first remove our branch and let '*' grant acctype".                    *)
LetStarRule(db, user, parts, sz, acctype) ==
    DropDot(PutAt(db, <<user>> \o First(parts, sz), parts[sz + 1], NIL),
            user, parts, sz, acctype)

(* The new node is a "*" entry.                                            *)
SetStar(db, user, parts, sz, acctype) ==
    PutAt(db, First(<<user>> \o parts, sz),
          (<<user>> \o parts)[sz + 1],
          Put(RemoveObsolete(At(db, <<user>> \o First(parts, sz)), acctype),
              "*", I(acctype)))

SetNode(db, user, parts, sz, acctype) ==
    PutAt(db, <<user>> \o First(parts, sz), parts[sz + 1], I(acctype))

(* The three branches, on the database w.db the loop left and the mapping  *)
(* 'map' it reached.  An empty parts array faults at parts[0].             *)
AddLeaf(w, map, user, parts, acctype) ==
    IF w.err \/ ~mapp(map) THEN Outcome(w.db, 0, TRUE, FALSE)
    ELSE IF parts = <<>> THEN Outcome(w.db, 0, TRUE, FALSE)
    ELSE IF Idx(map, "*") = I(acctype)
         THEN Outcome(LetStarRule(w.db, user, parts, Len(parts) - 1, acctype),
                      1, FALSE, TRUE)
    ELSE IF parts[Len(parts)] = "*"
         THEN Outcome(SetStar(w.db, user, parts, Len(parts) - 1, acctype), 1,
                      FALSE, TRUE)
    ELSE Outcome(SetNode(w.db, user, parts, Len(parts) - 1, acctype), 1,
                 FALSE, TRUE)

AddWalked(w, user, parts, acctype) ==
    AddLeaf(w, At(w.db, <<user>> \o First(parts, Len(parts) - 1)), user,
            parts, acctype)

AddParts(db, user, parts, acctype) ==
    AddWalked(Walk(db, <<user>>, First(parts, Len(parts) - 1)), user, parts,
              acctype)

(* "initialize and validate 'user's access 'map'" and what follows.        *)
AddNode(db, path, user, acctype) ==
    AddParts(IF Truthy(Idx(db, user)) THEN db ELSE Put(db, user, EmptyMap),
             user, _resolve(path, FALSE), acctype)

(* The outcome r of a step, with save_db() also called before it.          *)
AlsoSaved(r, saved) == [r EXCEPT !.saved = r.saved \/ saved]

(* "already have 'acctype' to 'path'?", with the result 'has' of           *)
(* get_access(path, user) and the outcome q2 of its query_groups.          *)
Already(q2, has, saved, path, user, acctype) ==
    IF has.err THEN Outcome(q2.db, 0, TRUE, saved)
    ELSE IF has.acc # acctype
         THEN AlsoSaved(AddNode(q2.db, path, user, acctype), saved)
    ELSE IF AlreadyGranted(q2.db, path, user, acctype) = "err"
         THEN Outcome(q2.db, 0, TRUE, saved)
    ELSE IF AlreadyGranted(q2.db, path, user, acctype) = "yes"
         THEN Outcome(q2.db, 0, FALSE, saved)
    ELSE AlsoSaved(AddNode(q2.db, path, user, acctype), saved)

Target(q2, saved, path, user, acctype) ==
    Already(q2, Evaluated(q2, path, user, FALSE), saved, path, user, acctype)

(* "'ply' has the right to grant this access?", with the result 'own' of   *)
(* get_access(path, geteuid(ply)) and the outcome q of its query_groups.   *)
Authorize(q, own, ply, path, user, acctype) ==
    IF own.err THEN Outcome(q.db, 0, TRUE, q.saved)
    ELSE IF own.acc \notin reqtype(acctype) /\ ply \notin admins
         THEN Outcome(q.db, 0 - 1, FALSE, q.saved)
    ELSE IF acctype = NO_ACCESS
         THEN AlsoSaved(RemoveNode(q.db, path, user), q.saved)
    ELSE Target(query_groups(q.db, user), q.saved, path, user, acctype)

Actor(q, ply, path, user, acctype) ==
    Authorize(q, Evaluated(q, path, ply, FALSE), ply, path, user, acctype)

grant_access(db, ply, path, user, acctype) ==
    Actor(query_groups(db, ply), ply, path, user, acctype)

-----------------------------------------------------------------------------
(* The state machine.                                                      *)
(*   access_map          the access database                               *)
(*   access_map_default  the default access privileges                     *)
(*   shared              access_map["*"] and access_map_default are one    *)
(*                       mapping (create() stores the reference)           *)
(*   ops                 the number of grant_access calls served           *)
(*   last                the last call and what it returned                *)
(*   pre                 the database before the last call                 *)

(* Inputs of the calls.                                                    *)
Admin == "kralk"
TreeUsers == {"aedil", "Arch_full", "*"}
TreeTypes == {NO_ACCESS, REVOKED, READ, WRITE, GRANT_GRANT}
TreePaths == { <<"data">>, <<"data", "b">>, <<"data", "b", "c">>,
               <<"data", "*">>, <<"data", "b", "*">>, <<"data", "b", ".">>,
               <<"players", "*">>, <<"?">> }
Wizard == "aedil"
AskUsers == {"aedil", "Arch_full"}
AskTypes == {NO_ACCESS, REVOKED, READ, GRANT_READ, WRITE, GRANT_WRITE,
             GRANT_GRANT}
AskPaths == { <<"data">>, <<"data", "b">> }
EvalUsers == {"frogo", "aedil"}
EvalPaths == { <<"data">>, <<"players", "aedil">>, <<"players", "frogo">>,
               <<"players", "frogo", "open">> }

NoCall == [op |-> "none", ply |-> "", path |-> <<>>, user |-> "",
           acctype |-> 0, ret |-> 0, err |-> FALSE, saved |-> FALSE,
           acc |-> 0, src |-> "", player |-> FALSE]

Init ==
    /\ access_map = SeededDatabase
    /\ access_map_default = DefaultPrivileges
    /\ shared = TRUE
    /\ ops = 0
    /\ last = NoCall
    /\ pre = SeededDatabase

(* What a call that leaves database db does to the default privileges:     *)
(* while access_map["*"] is the very mapping access_map_default refers to, *)
(* every change of one is a change of the other; removing the "*" entry    *)
(* ends the sharing and leaves access_map_default the emptied mapping.     *)
Alias(db) ==
    /\ shared' = (shared /\ Truthy(Idx(db, "*")))
    /\ access_map_default' =
           IF ~shared THEN access_map_default
           ELSE IF Truthy(Idx(db, "*")) THEN Idx(db, "*")
           ELSE EmptyMap

(* The state after a call of grant_access with outcome r.                  *)
Granted(r, ply, path, user, acctype) ==
    /\ access_map' = r.db
    /\ Alias(r.db)
    /\ last' = [op |-> "grant", ply |-> ply, path |-> path, user |-> user,
                acctype |-> acctype, ret |-> r.ret, err |-> r.err,
                saved |-> r.saved, acc |-> 0, src |-> "", player |-> FALSE]
    /\ pre' = access_map
    /\ ops' = ops + 1

Grant(ply, path, user, acctype) ==
    /\ ops < MaxOps
    /\ Granted(grant_access(access_map, ply, path, user, acctype), ply, path,
               user, acctype)

(* The state after a call of _get_access with result r, q being the        *)
(* outcome of its query_groups.                                            *)
Answered(q, r, path, user, player) ==
    /\ access_map' = q.db
    /\ Alias(q.db)
    /\ last' = [op |-> "eval", ply |-> "", path |-> path, user |-> user,
                acctype |-> 0, ret |-> 0, err |-> r.err, saved |-> q.saved,
                acc |-> r.acc, src |-> r.src, player |-> player]
    /\ pre' = access_map
    /\ ops' = ops

Asked(q, path, user, player) ==
    Answered(q, Evaluated(q, path, user, player), path, user, player)

(* A call of _get_access(path, user); 'player' says whether the caller is  *)
(* a clone of the player object.  An evaluation leaves the database as it  *)
(* is, so a second one in a row starts where the first did: the model      *)
(* takes one at a time.                                                    *)
Eval(path, user, player) ==
    /\ last.op # "eval"
    /\ Asked(query_groups(access_map, user), path, user, player)

Administer ==
    \E path \in TreePaths, user \in TreeUsers, acctype \in TreeTypes :
        Grant(Admin, path, user, acctype)

Evaluate ==
    \E path \in EvalPaths, user \in EvalUsers : Eval(path, user, FALSE)

(* The player object of 'user' asks for the access to its character file.  *)
CharacterFile(user) == <<"characters", "a", user>>

SaveCharacter ==
    \E user \in EvalUsers : Eval(CharacterFile(user), user, TRUE)

(* A grant requested by a wizard who is no hard-coded admin.               *)
Request ==
    \E path \in AskPaths, user \in AskUsers, acctype \in AskTypes :
        Grant(Wizard, path, user, acctype)

Next == Administer \/ Request \/ Evaluate \/ SaveCharacter

Spec == Init /\ [][Next]_vars

-----------------------------------------------------------------------------
(* Evaluation of trees restored from a savefile: create() replaces the     *)
(* database by whatever restore_object() reads.  The databases are the     *)
(* example of the header comment as the only tree, and the seeded database *)
(* with a tree for player "foo" holding one branch with both "." and "*",  *)
(* under a root with or without a default level.                           *)
ExampleTree ==
    Lit(<< <<".", I(READ)>>,
           <<"*", I(READ)>>,
           <<"data", I(REVOKED)>>,
           <<"log", I(WRITE)>>,
           <<"players", Lit(<< <<".", I(READ)>>,
                               <<"*", I(REVOKED)>>,
                               <<"aedil", I(GRANT_GRANT)>>,
                               <<"frogo", Lit(<< <<".", I(READ)>>,
                                                 <<"*", I(REVOKED)>> >>)>>
                            >>)>> >>)

ExampleDatabase == Lit(<< <<"*", ExampleTree>> >>)

ExamplePaths == { <<>>, <<"characters">>, <<"data", "notes">>,
                  <<"log", "driver">>, <<"players">>,
                  <<"players", "aedil", "com", "access.c">>,
                  <<"players", "dios", "workroom.c">>,
                  <<"players", "frogo">>,
                  <<"players", "frogo", "workroom.c">> }

RootDefaults == {NO_ACCESS, READ}
BranchLevels == {REVOKED, READ, WRITE}

(* ([ "*": d, "data": ([ ".": x, "*": y ]) ]), without the "*" when d = 0. *)
BranchTree(d, x, y) ==
    Put(Lit(<< <<"data", Lit(<< <<".", I(x)>>, <<"*", I(y)>> >>)>> >>),
        "*", I(d))

BranchDatabases ==
    { Put(SeededDatabase, "foo", BranchTree(d, x, y)) :
          d \in RootDefaults, x \in BranchLevels, y \in BranchLevels }

TreeDatabases == {ExampleDatabase} \cup BranchDatabases

TreeEvalUsers == {"frogo", "dios", "aedil", "foo"}
TreeEvalPaths == ExamplePaths \cup { <<"data">>, <<"data", "b">> }

TreeInit ==
    /\ access_map \in TreeDatabases
    /\ access_map_default = DefaultPrivileges
    /\ shared = FALSE
    /\ ops = 0
    /\ last = NoCall
    /\ pre = access_map

TreeNext ==
    \E path \in TreeEvalPaths, user \in TreeEvalUsers :
        Eval(path, user, FALSE)

TreeSpec == TreeInit /\ [][TreeNext]_vars

-----------------------------------------------------------------------------
(* save_db(): 1, or 0 when save_object() raises an error ('fails'); the    *)
(* PANIC lines go to the kernel log and nothing else happens.              *)
save_db(fails) == IF fails THEN 0 ELSE 1

(* grant_access_group(user, group, add) called by player 'ply' ("" when    *)
(* there is no this_player).                                               *)

(* "if user had groups only and there are no more groups ... remove user", *)
(* then save_db() and return 1.                                            *)
DropUser(db, user, g) ==
    Outcome(IF g = <<>> /\ keys(Idx(db, user)) = {}
            THEN Put(db, user, NIL)
            ELSE db,
            1, FALSE, TRUE)

(* "remove user from group": g is the list without the group.              *)
LeaveGroup(db, user, g) ==
    DropUser(PutAt(db, <<user>>, "?", IF g = <<>> THEN NIL ELSE A(g)), user, g)

(* "add user to group": g is the list with the group.                      *)
JoinGroup(db, user, g) ==
    Outcome(PutAt(db, <<user>>, "?", A(g)), 2, FALSE, TRUE)

(* if (!access_map[user]) access_map[user] = ([ ]);                        *)
WithTree(db, user) ==
    IF Truthy(Idx(db, user)) THEN db ELSE Put(db, user, EmptyMap)

(* A refusal that comes after the tree of the user was made.               *)
(* RejectionsChangeNothing tells the two apart.                            *)
RefusedWithTree(db, user, ret, saved) ==
    Outcome(WithTree(db, user), ret, FALSE, saved)

(* return -2 .. -8: the request is refused with the database as it is.     *)
Refused(db, user, ret, saved) == Outcome(db, ret, FALSE, saved)

(* The part of grant_access_group after g = query_groups(user), q being    *)
(* the outcome of that call.                                               *)
Membership(q, ply, user, group, add) ==
    IF InSeq(group, q.res)
    THEN IF add # 0 THEN Refused(q.db, user, 0 - 3, q.saved)
         ELSE IF group \in s_grps /\ GeJuniorArch(Tier(user))
              THEN Refused(q.db, user, 0 - 7, q.saved)
         ELSE LeaveGroup(WithTree(q.db, user), user, Without(q.res, group))
    ELSE IF add = 0 THEN Refused(q.db, user, 0 - 4, q.saved)
    ELSE IF ~mapp(Idx(q.db, group)) THEN Refused(q.db, user, 0 - 2, q.saved)
    ELSE IF group \in s_grps /\ ~GeArchwizard(Tier(ply))
         THEN Refused(q.db, user, 0 - 8, q.saved)
    ELSE JoinGroup(WithTree(q.db, user), user, Append(q.res, group))

grant_access_group(db, ply, user, group, add) ==
    IF ply = "" THEN Refused(db, user, 0 - 1, FALSE)
    ELSE IF user \in fusers THEN Refused(db, user, 0 - 6, FALSE)
    ELSE IF IsGroup(user) THEN Refused(db, user, 0 - 5, FALSE)
    ELSE Membership(query_groups(db, user), ply, user, group, add)

(* valid_access(path, user, acctype): [ret, logged, acc, err], ret being   *)
(* 1 when the path is returned and 0 when nil is, logged whether a line    *)
(* went to /data/log/INVALID_ACCESS.  A runtime error of get_access ends   *)
(* the call.                                                               *)
Validated(r, acctype) ==
    IF r.err THEN [ret |-> 0, logged |-> FALSE, acc |-> 0, err |-> TRUE]
    ELSE [ret |-> IF r.acc >= acctype THEN 1 ELSE 0,
          logged |-> r.acc < acctype, acc |-> r.acc, err |-> FALSE]

valid_access(q, path, user, acctype) ==
    Validated(Evaluated(q, path, user, FALSE), acctype)

(* l > lookup_chardata(user, "level"), a tier standing for one level.      *)
Above(l, user) == GeArchwizard(l) /\ ~GeArchwizard(Tier(user))

(* grant_access_default(user) asked by ply, dflt being the mapping that    *)
(* access_map_default refers to.                                           *)
grant_access_default(db, dflt, ply, user) ==
    IF ply = "" THEN Refused(db, user, 0 - 1, FALSE)
    ELSE IF ~Truthy(Idx(db, user)) THEN Refused(db, user, 0, FALSE)
    ELSE IF ~IsGroup(user) /\ user = "*"
         THEN Outcome(Put(db, user, dflt), 1, FALSE, TRUE)
    ELSE IF ~IsGroup(user) /\ user \in fusers
         THEN Refused(db, user, 0 - 1, FALSE)
    ELSE IF ~IsGroup(user)
            /\ ~(GeArchwizard(Tier(ply))
                   /\ (Above(Tier(ply), user) \/ ply = user))
         THEN Refused(db, user, 0 - 1, FALSE)
    ELSE IF IsGroup(user) /\ ~GeArchwizard(Tier(ply))
         THEN Refused(db, user, 0 - 1, FALSE)
    ELSE Outcome(Put(db, user, NIL), 1, FALSE, TRUE)

-----------------------------------------------------------------------------
(* The daemon with a database restored from a savefile, serving grants,    *)
(* group changes and access checks.  The savefiles hold the seeded         *)
(* database, the group Elandar with one entry, the player bambi as a       *)
(* member of Elandar, and a tree for the player foo:                       *)
(*     ([ "*": d, "data": ([ ".": x, "*": y, "b": z ]) ])                  *)
(* each entry being left out when its level is 0.                          *)
StoreDefaults == {NO_ACCESS, READ}
StoreSelves == {NO_ACCESS, REVOKED}
StoreLevels == {NO_ACCESS, REVOKED, READ}
StoreChildren == {NO_ACCESS, READ}

StoreBranch(x, y, z) ==
    Put(Put(Put(EmptyMap, ".", I(x)), "*", I(y)), "b", I(z))

StoreTree(d, x, y, z) ==
    Put(Put(EmptyMap, "*", I(d)), "data",
        IF keys(StoreBranch(x, y, z)) = {} THEN NIL ELSE StoreBranch(x, y, z))

StoreBase ==
    Put(Put(SeededDatabase, "Elandar", Lit(<< <<"data", I(WRITE)>> >>)),
        "bambi", Lit(<< <<"?", A(<<"Elandar">>)>> >>))

StoreDatabases ==
    { Put(StoreBase, "foo",
          IF keys(StoreTree(d, x, y, z)) = {} THEN NIL
          ELSE StoreTree(d, x, y, z)) :
          d \in StoreDefaults, x \in StoreSelves, y \in StoreLevels,
          z \in StoreChildren }

(* Inputs of the calls.                                                    *)
(* grant_access: <<user, path>>.                                           *)
StoreTargets ==
    ({"foo"} \X { <<>>, <<"data">>, <<"data", "b">>, <<"data", "*">>,
                  <<"data", ".">>, <<"data", "b", "c", "d">> })
        \cup { <<"Elandar", <<"data">> >>, <<"bambi", <<"?">> >>,
               <<"*", <<"*">> >> }
StoreTypes == {NO_ACCESS, REVOKED, READ}
Visitor == "frogo"
(* grant_access_group: <<ply, user, group>>.                               *)
StoreGroups == {"Elandar", "Arch_docs", "Arch_full"}
StoreJoins ==
    ({Admin, Visitor} \X {"bambi"} \X StoreGroups)
        \cup ({Admin} \X {"aedil"} \X {"Elandar", "Arch_full"})
        \cup ({Admin} \X {"Elandar", "root"} \X {"Elandar"})
        \cup { <<"", "bambi", "Elandar">> }
CheckUsers == {"foo", "bambi"}
CheckPaths == { <<"data">>, <<"doc">> }
RequestPaths == { <<"data">> }
(* grant_access_default: <<ply, user>>.                                    *)
StoreResets == ({Admin} \X {"*", "foo", "Elandar"}) \cup { <<Visitor, "foo">> }
CheckTypes == {READ}

(* merge_maps(dmap, amap, dflt): the mapping dmap after the merge.  Each    *)
(* key of amap other than "*" changes only its own entry of dmap, so the   *)
(* loop is a map over the keys; dmap["*"] is set after the loop.  The      *)
(* entries met are levels and branches: the "?" list of an own tree is     *)
(* merged first, into an empty dmap, and is copied like a level.           *)
RECURSIVE merge_maps(_, _, _)
merge_maps(dmap, amap, dflt) ==
    LET ndfl == IF IntIdx(dmap, "*") # 0 THEN IntIdx(dmap, "*") ELSE dflt
        elts == keys(amap) \ {"*"}
        Merged(e) ==
            IF Truthy(Idx(dmap, e))
            THEN IF ~mapp(Idx(dmap, e)) THEN Idx(dmap, e)
                 ELSE IF ~mapp(Idx(amap, e))
                 THEN IF IntIdx(Idx(dmap, e), "*") = 0
                      THEN Put(Idx(dmap, e), "*", Idx(amap, e))
                      ELSE Idx(dmap, e)
                 ELSE merge_maps(Idx(dmap, e), Idx(amap, e), ndfl)
            ELSE IF Truthy(Idx(dmap, "*")) THEN NIL
            ELSE IF mapp(Idx(amap, e))
                 THEN merge_maps(EmptyMap, Idx(amap, e), ndfl)
            ELSE Idx(amap, e)
        star == IF ~Truthy(Idx(dmap, "*")) /\ dflt = 0
                THEN Idx(amap, "*") ELSE Idx(dmap, "*")
        dom == {e \in keys(dmap) \cup keys(amap) :
                   IF e = "*" THEN Truthy(star)
                   ELSE IF e \in elts THEN Truthy(Merged(e)) ELSE TRUE}
    IN  M([e \in dom |-> IF e = "*" THEN star
                         ELSE IF e \in elts THEN Merged(e)
                         ELSE dmap.m[e]])

(* The loop of show_access that lists the effective access: the maps of    *)
(* get_access_maps merged one after the other, from map i (1-based), into  *)
(* dmap.  A map that is nil faults in map_indices().                       *)
RECURSIVE MergeFrom(_, _, _)
MergeFrom(maps, i, dmap) ==
    IF i > Len(maps) THEN [dmap |-> dmap, err |-> FALSE]
    ELSE IF ~mapp(maps[i][2]) THEN [dmap |-> dmap, err |-> TRUE]
    ELSE MergeFrom(maps, i + 1, merge_maps(dmap, maps[i][2], 0))

(* show_access(user, 1) asked by a player: the effective access listed is  *)
(* the merge of the maps of 'who', the default map standing in for a user  *)
(* without a tree and with at most one group.  q is the outcome of the     *)
(* query_groups that get_access_maps calls.                                *)
Listed(q, who, saved) ==
    [db |-> q.db, ret |-> 1, saved |-> saved \/ q.saved, who |-> who,
     err |-> MergeFrom(get_access_maps(q.db, q.res, who), 1, EmptyMap).err,
     view |-> MergeFrom(get_access_maps(q.db, q.res, who), 1, EmptyMap).dmap]

Unknown(q, user) ==
    IF Len(q.res) <= 1
    THEN Listed(query_groups(q.db, "*"), "*", q.saved)
    ELSE Listed(query_groups(q.db, user), user, q.saved)

show_access(db, user) ==
    IF user \notin fusers /\ ~Truthy(Idx(db, user))
    THEN Unknown(query_groups(db, user), user)
    ELSE Listed(query_groups(db, user), user, FALSE)

(* The explicit level that the own tree of 'user' holds at 'parts' (the    *)
(* pieces as grant_access resolves them for a removal), 0 when none.       *)
Held(db, user, parts) ==
    IF parts = <<>> THEN 0
    ELSE IF ~Truthy(Descend(Idx(db, user), parts, 0, Len(parts) - 1)) THEN 0
    ELSE IF intp(Idx(Descend(Idx(db, user), parts, 0, Len(parts) - 1),
                     parts[Len(parts)]))
         THEN IntIdx(Descend(Idx(db, user), parts, 0, Len(parts) - 1),
                     parts[Len(parts)])
    ELSE 0

(* get_access(path, user) as a pair <<runtime error, level>>.              *)
Access(r) == <<r.err, IF r.err THEN 0 ELSE r.acc>>

(* What a grant_access call remembers of the call before it: whether that  *)
(* call removed a node (returned 1), and where.                            *)
NoPrior == [removed |-> FALSE, path |-> <<>>, user |-> "", held |-> 0,
            was |-> <<FALSE, 0>>]

Prior ==
    IF last.op = "grant" /\ last.acctype = NO_ACCESS /\ last.ret = 1
           /\ ~last.err
    THEN [removed |-> TRUE, path |-> last.path, user |-> last.user,
          held |-> last.held, was |-> last.was]
    ELSE NoPrior

Quiet == [op |-> "none", ply |-> "", path |-> <<>>, user |-> "",
          acctype |-> 0, group |-> "", add |-> 0, ret |-> 0, err |-> FALSE,
          saved |-> FALSE, panic |-> FALSE, logged |-> FALSE, acc |-> 0,
          held |-> 0, was |-> <<FALSE, 0>>, prior |-> NoPrior, view |-> NIL]

StoreInit ==
    /\ access_map \in StoreDatabases
    /\ access_map_default = DefaultPrivileges
    /\ shared = FALSE
    /\ ops = 0
    /\ last = Quiet
    /\ pre = access_map

(* The state after a call that left outcome r and is recorded as rec.      *)
Served(r, rec, n) ==
    /\ access_map' = r.db
    /\ Alias(r.db)
    /\ last' = rec
    /\ pre' = access_map
    /\ ops' = ops + n

(* A call of grant_access; 'fails' says whether save_object() fails.       *)
Mutated(r, ply, path, user, acctype, fails) ==
    Served(r,
           [Quiet EXCEPT !.op = "grant", !.ply = ply, !.path = path,
                         !.user = user, !.acctype = acctype, !.ret = r.ret,
                         !.err = r.err, !.saved = r.saved,
                         !.panic = r.saved /\ save_db(fails) = 0,
                         !.held = Held(access_map, user, _resolve(path, TRUE)),
                         !.was = Access(get_access(access_map, path, user)),
                         !.prior = Prior],
           1)

Mutate(ply, path, user, acctype, fails) ==
    /\ ops < MaxOps
    /\ Mutated(grant_access(access_map, ply, path, user, acctype), ply, path,
               user, acctype, fails)

(* A call of grant_access_group.                                           *)
Joined(r, ply, user, group, add, fails) ==
    Served(r,
           [Quiet EXCEPT !.op = "group", !.ply = ply, !.user = user,
                         !.group = group, !.add = add, !.ret = r.ret,
                         !.err = r.err, !.saved = r.saved,
                         !.panic = r.saved /\ save_db(fails) = 0],
           1)

Join(ply, user, group, add, fails) ==
    /\ ops < MaxOps
    /\ Joined(grant_access_group(access_map, ply, user, group, add), ply,
              user, group, add, fails)

(* A call of valid_access, q being the outcome of its query_groups.  Like  *)
(* an evaluation, the model takes one at a time.                           *)
Checked(q, r, path, user, acctype, fails) ==
    Served(q,
           [Quiet EXCEPT !.op = "check", !.path = path, !.user = user,
                         !.acctype = acctype, !.ret = r.ret, !.err = r.err,
                         !.saved = q.saved,
                         !.panic = q.saved /\ save_db(fails) = 0,
                         !.logged = r.logged, !.acc = r.acc],
           0)

Check(path, user, acctype, fails) ==
    /\ last.op # "check"
    /\ Checked(query_groups(access_map, user),
               valid_access(query_groups(access_map, user), path, user,
                            acctype),
               path, user, acctype, fails)

(* A call of show_access for the effective access; like a check, the      *)
(* model takes one at a time.                                              *)
Shown(r, user) ==
    Served(r,
           [Quiet EXCEPT !.op = "show", !.user = user, !.ret = r.ret,
                         !.err = r.err, !.saved = r.saved, !.view = r.view],
           0)

Show(user) ==
    /\ last.op # "show"
    /\ Shown(show_access(access_map, user), user)

(* A call of grant_access_default.  A reset of "*" makes access_map["*"]   *)
(* the very mapping access_map_default refers to.                          *)
Restored(r, ply, user, fails) ==
    /\ access_map' = r.db
    /\ access_map_default' = access_map_default
    /\ shared' = IF user = "*" /\ r.ret = 1 THEN TRUE
                 ELSE shared /\ Truthy(Idx(r.db, "*"))
    /\ last' = [Quiet EXCEPT !.op = "reset", !.ply = ply, !.user = user,
                             !.ret = r.ret, !.err = r.err, !.saved = r.saved,
                             !.panic = r.saved /\ save_db(fails) = 0]
    /\ pre' = access_map
    /\ ops' = ops + 1

Reset(ply, user, fails) ==
    /\ ops < MaxOps
    /\ Restored(grant_access_default(access_map, access_map_default, ply,
                                     user),
                ply, user, fails)

StoreGrant ==
    \E t \in StoreTargets, acctype \in StoreTypes, fails \in BOOLEAN :
        Mutate(Admin, t[2], t[1], acctype, fails)

StoreRequest ==
    \E path \in RequestPaths, acctype \in StoreTypes :
        Mutate(Visitor, path, "foo", acctype, FALSE)

StoreGroup ==
    \E j \in StoreJoins, add \in {0, 1}, fails \in BOOLEAN :
        Join(j[1], j[2], j[3], add, fails)

StoreCheck ==
    \E path \in CheckPaths, user \in CheckUsers, acctype \in CheckTypes :
        Check(path, user, acctype, FALSE)

StoreShow == \E user \in CheckUsers : Show(user)

StoreReset == \E t \in StoreResets : Reset(t[1], t[2], FALSE)

StoreNext ==
    \/ StoreGrant
    \/ StoreRequest
    \/ StoreGroup
    \/ StoreCheck
    \/ StoreShow
    \/ StoreReset

StoreSpec == StoreInit /\ [][StoreNext]_vars

-----------------------------------------------------------------------------
(* resolve(path) on its own.  A path text is the empty string or "/"       *)
(* followed by pieces joined by "/"; the result is 0 or the pieces of the  *)
(* string "/" + implode(parts, "/").                                       *)
MaxPieces == 5

ResolvePieces == {"", ".", "..", "b", "c"}

EmptyText == [empty |-> TRUE, parts |-> <<>>]
Absolute(parts) == [empty |-> FALSE, parts |-> parts]

ResolveTexts ==
    {EmptyText} \cup
    {Absolute(p) : p \in UNION {[1..n -> ResolvePieces] : n \in 0..MaxPieces}}

resolve(text) ==
    IF text.empty THEN NIL ELSE A(_resolve(text.parts, FALSE))

ResolveInit ==
    /\ access_map = SeededDatabase
    /\ access_map_default = DefaultPrivileges
    /\ shared = FALSE
    /\ ops = 0
    /\ pre = access_map
    /\ last \in {[op |-> "none", text |-> t, ret |-> NIL] : t \in ResolveTexts}

Resolve ==
    /\ last.op = "none"
    /\ last' = [op |-> "resolve", text |-> last.text,
                ret |-> resolve(last.text)]
    /\ UNCHANGED <<access_map, access_map_default, shared, ops, pre>>

ResolveNext == Resolve

ResolveSpec == ResolveInit /\ [][ResolveNext]_vars

-----------------------------------------------------------------------------
(* _get_access one path segment at a time: the call enters with the maps   *)
(* of get_access_maps and the defaults of the loop at 693-696, consults    *)
(* the maps for one part after the other (705-710), and returns (711-733). *)
(* 'last' holds the locals of the call: maps, parts, i, st = [maps, dfls,  *)
(* j, err], the st before the last part, and the j left by each part.      *)
WalkUsers == {"foo", "bambi", "aedil"}
WalkPaths == { <<"data">>, <<"data", "b">>, <<"data", "c">>,
               <<"data", "b", "c">>, <<"doc", "b">>, <<"log", "old">>,
               <<"players", "foo", "b">> }

Idle == [op |-> "none", user |-> "", maps |-> <<>>, parts |-> <<>>, i |-> 0,
         st |-> [maps |-> <<>>, dfls |-> <<>>, j |-> 0, err |-> FALSE],
         before |-> [maps |-> <<>>, dfls |-> <<>>, j |-> 0, err |-> FALSE],
         js |-> <<>>, acc |-> 0, src |-> "", err |-> FALSE]

WalkInit ==
    /\ access_map \in StoreDatabases
    /\ access_map_default = DefaultPrivileges
    /\ shared = FALSE
    /\ ops = 0
    /\ last = Idle
    /\ pre = access_map

(* The locals after the loop over the maps that reads their "*".           *)
Entered(user, maps, parts) ==
    IF \E k \in 1..Len(maps) : ~mapp(maps[k][2])
    THEN [Idle EXCEPT !.op = "done", !.user = user, !.maps = maps,
                      !.parts = parts, !.err = TRUE]
    ELSE [Idle EXCEPT !.op = "walk", !.user = user, !.maps = maps,
                      !.parts = parts,
                      !.st = [maps |-> [k \in 1..Len(maps) |-> maps[k][2]],
                              dfls |-> [k \in 1..Len(maps) |->
                                           IntIdx(maps[k][2], "*")],
                              j |-> 0, err |-> FALSE],
                      !.before = [maps |-> [k \in 1..Len(maps) |->
                                               maps[k][2]],
                                  dfls |-> [k \in 1..Len(maps) |->
                                               IntIdx(maps[k][2], "*")],
                                  j |-> 0, err |-> FALSE]]

Enter(path, user) ==
    /\ last.op = "none"
    /\ access_map' = query_groups(access_map, user).db
    /\ last' = Entered(user,
                       get_access_maps(query_groups(access_map, user).db,
                                       query_groups(access_map, user).res,
                                       user),
                       _resolve(path, FALSE))
    /\ pre' = access_map
    /\ UNCHANGED <<access_map_default, shared, ops>>

(* One round of the loop over the parts.                                   *)
Segmented(st) ==
    [last EXCEPT !.i = last.i + 1, !.before = last.st, !.st = st,
                 !.js = Append(last.js, st.j)]

Segment ==
    /\ last.op = "walk"
    /\ last.i < Len(last.parts)
    /\ ~last.st.err
    /\ last' = Segmented(EvalPart(last.parts[last.i + 1],
                                  last.i + 1 = Len(last.parts), last.st, 0))
    /\ UNCHANGED <<access_map, access_map_default, shared, ops, pre>>

(* The end of the call, r being what it returns.                           *)
Returned(r) ==
    [last EXCEPT !.op = "done", !.acc = r.acc, !.src = r.src, !.err = r.err]

Return ==
    /\ last.op = "walk"
    /\ last.i = Len(last.parts) \/ last.st.err
    /\ last' = Returned(Settle(last.user, last.maps, last.parts, last.st))
    /\ UNCHANGED <<access_map, access_map_default, shared, ops, pre>>

WalkNext ==
    \/ \E path \in WalkPaths, user \in WalkUsers : Enter(path, user)
    \/ Segment
    \/ Return

WalkSpec == WalkInit /\ [][WalkNext]_vars

-----------------------------------------------------------------------------
(* Revokes on a tree whose entries lie three pieces deep:                  *)
(* ([ "*": READ, "data": ([ "keep": k, "b": ([ ".": x, "*": y, "c": z,     *)
(* "e": w ]) ]) ]), an entry being absent when its level is 0.             *)
FoldSelves == {NO_ACCESS, REVOKED}
FoldStars == {NO_ACCESS, REVOKED, READ}
FoldChildren == {NO_ACCESS, READ}
FoldSiblings == {NO_ACCESS, WRITE}

FoldBranch3(x, y, z, w) ==
    Lit(<< <<".", I(x)>>, <<"*", I(y)>>, <<"c", I(z)>>, <<"e", I(w)>> >>)

(* A branch without entries is no entry of its parent.                     *)
Present(branch) == IF keys(branch) = {} THEN NIL ELSE branch

FoldTree(k, x, y, z, w) ==
    Lit(<< <<"*", I(READ)>>,
           <<"data",
             Present(Lit(<< <<"keep", I(k)>>,
                         <<"b", Present(FoldBranch3(x, y, z, w))>> >>))>>
        >>)

FoldDatabases ==
    { Put(SeededDatabase, "foo", FoldTree(k, x, y, z, w)) :
          k \in FoldSiblings, x \in FoldSelves, y \in FoldStars,
          z \in FoldChildren, w \in FoldSiblings }

FoldPaths == { <<"data", "b", ".">>, <<"data", "b", "*">>,
               <<"data", "b", "c">>, <<"data", "b", "e">>,
               <<"data", "keep">>, <<"data", "b">>,
               <<"data", "keep", "..", "b", ".">>,
               <<"data", "b", ".", "..">> }

FoldInit ==
    /\ access_map \in FoldDatabases
    /\ access_map_default = DefaultPrivileges
    /\ shared = FALSE
    /\ ops = 0
    /\ last = Quiet
    /\ pre = access_map

FoldNext ==
    \E path \in FoldPaths : Mutate(Admin, path, "foo", NO_ACCESS, FALSE)

FoldSpec == FoldInit /\ [][FoldNext]_vars

-----------------------------------------------------------------------------
(* Properties.  'last' and 'pre' record the last call, so each property is *)
(* a predicate on the state the call left.                                 *)

(* The pieces of the path of the last call, as the evaluation resolves     *)
(* them.                                                                   *)
LastParts == _resolve(last.path, FALSE)

(* The evaluation of the requester's own tree alone.                       *)
OwnTreeAlone(db, path, user) ==
    Consult(user, << <<user, subtract_map(Idx(db, user), "?")>> >>,
            _resolve(path, FALSE))

(* The own tree of 'user' in db gives a level for the last part of path.   *)
OwnTreeDecides(db, path, user) ==
    /\ mapp(Idx(db, user))
    /\ ~OwnTreeAlone(db, path, user).err
    /\ OwnTreeAlone(db, path, user).gen # 0

(* The evaluation of the last call went through the trees: it was not the  *)
(* character file of the player object that asked.                         *)
TreesConsulted ==
    last.op = "eval"
        /\ ~(last.player /\ IsOwnCharacterFile(last.path, last.user))

(* C1: when the player's own tree gives the level for the final part of    *)
(* the path, the evaluation returns that level tagged with the player's    *)
(* name, whatever the group trees and the default tree hold and with no    *)
(* ruled level put in its place.                                           *)
OwnTreeWins ==
    (TreesConsulted /\ OwnTreeDecides(pre, last.path, last.user))
        => /\ ~last.err
           /\ last.acc = OwnTreeAlone(pre, last.path, last.user).gen
           /\ last.src = last.user

(* C1: aedil holds REVOKED at /data, the group Arch_full aedil belongs to  *)
(* holds WRITE there, and the evaluation of /data for aedil gave REVOKED   *)
(* from aedil's tree.                                                      *)
OwnTreeWinsWitness ==
    /\ last.op = "eval"
    /\ last.user = "aedil"
    /\ last.path = <<"data">>
    /\ mapp(Idx(pre, "aedil"))
    /\ Idx(Idx(pre, "aedil"), "data") = I(REVOKED)
    /\ Idx(Idx(pre, "Arch_full"), "data") = I(WRITE)
    /\ last.acc = REVOKED
    /\ last.src = "aedil"

(* The levels the header comment lists for the example.                    *)
ExampleLevel(path) ==
    CASE path = <<>> -> READ
      [] path = <<"characters">> -> READ
      [] path = <<"data", "notes">> -> REVOKED
      [] path = <<"log", "driver">> -> WRITE
      [] path = <<"players">> -> READ
      [] path = <<"players", "aedil", "com", "access.c">> -> GRANT_GRANT
      [] path = <<"players", "dios", "workroom.c">> -> REVOKED
      [] path = <<"players", "frogo">> -> READ
      [] path = <<"players", "frogo", "workroom.c">> -> REVOKED

(* The requester is the wizard the second piece of a /players or /d path   *)
(* names.                                                                  *)
OwnHome(path, user) ==
    Len(path) >= 2 /\ path[1] \in {"d", "players"} /\ path[2] = user

OnExample ==
    last.op = "eval" /\ pre = ExampleDatabase /\ last.path \in ExamplePaths

(* C2, as amended: with the example tree as the only tree consulted, each  *)
(* listed path evaluates to the listed level for every requester but the   *)
(* wizard whose home the path lies in, who gets GRANT_GRANT.               *)
ExampleLevels ==
    OnExample
        => /\ ~last.err
           /\ last.acc = IF OwnHome(last.path, last.user) THEN GRANT_GRANT
                         ELSE ExampleLevel(last.path)

(* C2: /players/frogo evaluated for dios on the example tree gave READ,    *)
(* the "." level of the branch.                                            *)
ExampleLevelsWitness ==
    /\ OnExample
    /\ last.path = <<"players", "frogo">>
    /\ last.user = "dios"
    /\ last.acc = READ

(* C2, as stated: with the example tree as the only tree consulted, each   *)
(* listed path evaluates to the listed level for any requester.            *)
ExampleLevelsAnyRequester ==
    OnExample => (~last.err /\ last.acc = ExampleLevel(last.path))

(* C3: a player with no tree of their own in the database gets GRANT_GRANT *)
(* tagged "!" at /players/<name>, /d/<name> and below, whatever groups the *)
(* player belongs to.                                                      *)
HomeRuledWithoutOwnTree ==
    (/\ last.op = "eval"
     /\ ~Truthy(Idx(pre, last.user))
     /\ OwnHome(LastParts, last.user))
        => (~last.err /\ last.acc = GRANT_GRANT /\ last.src = "!")

(* C4: at a path d|players / <other> / open ..., a requester whose own     *)
(* tree did not give the level, or who has no own tree, gets READ tagged   *)
(* "!".                                                                    *)
OpenRuledForOthers ==
    (/\ last.op = "eval"
     /\ Len(LastParts) >= 3
     /\ LastParts[1] \in {"d", "players"}
     /\ LastParts[2] # last.user
     /\ LastParts[3] = "open"
     /\ ~OwnTreeDecides(pre, last.path, last.user))
        => (~last.err /\ last.acc = READ /\ last.src = "!")

(* The level the actor of the last grant held at its path.                 *)
ActorLevel == get_access(pre, last.path, last.ply)

(* The lowest grant level that allows granting 'acctype'.                  *)
MinTier(acctype) ==
    CASE acctype \in {NO_ACCESS, REVOKED, READ} -> GRANT_READ
      [] acctype \in {GRANT_READ, WRITE} -> GRANT_WRITE
      [] OTHER -> GRANT_GRANT

RequestServed ==
    last.op = "grant" /\ last.ply \notin admins /\ ~ActorLevel.err

Rejected == last.ret = 0 - 1 /\ ~last.err

(* C5, as amended: a grant or revoke asked by an actor who is no           *)
(* hard-coded admin is rejected exactly when the actor's level at the path *)
(* is not one of the grant levels GRANT_READ, GRANT_WRITE, GRANT_GRANT at  *)
(* or above the minimum tier of the requested level; WRITE allows no       *)
(* grant.                                                                  *)
GrantTierAuthorizes ==
    RequestServed
        => (Rejected <=>
               ~(/\ ActorLevel.acc \in {GRANT_READ, GRANT_WRITE, GRANT_GRANT}
                 /\ ActorLevel.acc >= MinTier(last.acctype)))

(* C5: aedil, holding WRITE at the path, asked to grant READ there and was *)
(* rejected.                                                               *)
GrantTierAuthorizesWitness ==
    /\ RequestServed
    /\ ActorLevel.acc = WRITE
    /\ last.acctype = READ
    /\ Rejected

(* C5, as stated: such a request is rejected exactly when the actor's      *)
(* level is below the minimum tier of the requested level.                 *)
BelowTierRejected ==
    RequestServed
        => (Rejected <=> ActorLevel.acc < MinTier(last.acctype))

(* The level of path q for principal u on database db, with the fault of   *)
(* the evaluation as part of it.                                           *)
Level(db, q, u) ==
    <<get_access(db, q, u).err,
      IF get_access(db, q, u).err THEN 0 ELSE get_access(db, q, u).acc>>

GrantDone ==
    last.op = "grant" /\ last.acctype # NO_ACCESS /\ last.ret = 1
        /\ ~last.err

(* C6: right after a successful grant of level L (not NO_ACCESS) at path p *)
(* for principal u, the level of p for u is L.                             *)
GrantTakesEffect ==
    GrantDone
        => Level(access_map, last.path, last.user) = <<FALSE, last.acctype>>

(* p is a prefix of q.                                                     *)
Below(p, q) == Len(p) <= Len(q) /\ SubSeq(q, 1, Len(p)) = p

(* The paths a change at p may change: p and what lies below it; for a p   *)
(* that ends in "*" or ".", the directory and what lies below it.          *)
Covered(p, q) ==
    IF p # <<>> /\ p[Len(p)] \in {"*", "."}
    THEN Below(First(p, Len(p) - 1), q)
    ELSE Below(p, q)

Ordinary(p) == \A i \in 1..Len(p) : p[i] # "?"

FramePaths == { <<"data">>, <<"data", "b">>, <<"data", "b", "c">>,
                <<"data", "x">>, <<"data", "b", "x">>, <<"players">>,
                <<"players", "x">>, <<"tmp">> }

Unchanged(p, u) ==
    \A q \in FramePaths :
        ~Covered(p, q) => Level(access_map, q, u) = Level(pre, q, u)

(* C7: a successful grant of level L at path p for principal u makes the   *)
(* level of p for u equal to L and leaves the level for u of every other   *)
(* path as it was.  Stated here for paths without a "?" piece, and with    *)
(* the paths below p (below the directory of p, when p ends in "*") not    *)
(* counted among the other paths.                                          *)
GrantFrame ==
    (GrantDone /\ Ordinary(LastParts))
        => /\ Level(access_map, last.path, last.user) = <<FALSE, last.acctype>>
           /\ Unchanged(LastParts, last.user)

(* C8: a revoke at path p for principal u that returns 1 or 2 leaves the   *)
(* level for u of every other path as it was.  Stated here for paths       *)
(* without a "?" piece, and with the paths below p (below the directory of *)
(* p, when p ends in "*" or ".") not counted among the other paths.        *)
RevokeFrame ==
    (/\ last.op = "grant"
     /\ last.acctype = NO_ACCESS
     /\ last.ret \in {1, 2}
     /\ ~last.err
     /\ Ordinary(last.path))
        => Unchanged(_resolve(last.path, TRUE), last.user)

(* The branch at directory dir of the tree of u, or 0.                     *)
BranchAt(db, u, dir) == Descend(Idx(db, u), dir, 0, Len(dir))

(* Node k of that branch, 0 when there is no such branch or node.          *)
NodeAt(db, u, dir, k) ==
    IF mapp(BranchAt(db, u, dir)) THEN Idx(BranchAt(db, u, dir), k) ELSE NIL

LastDir == First(last.path, Len(last.path) - 1)

(* C9: setting the "*" of a branch by a grant whose last piece is "*"      *)
(* changes neither the "." of the branch nor the level of the branch's own *)
(* path; removing the "." of a branch changes neither its "*" nor the      *)
(* level of the paths below it.                                            *)
StarAndDotIndependent ==
    /\ (/\ GrantDone
        /\ Len(last.path) >= 2
        /\ last.path[Len(last.path)] = "*"
        /\ mapp(BranchAt(pre, last.user, LastDir)))
           => /\ NodeAt(access_map, last.user, LastDir, ".")
                     = NodeAt(pre, last.user, LastDir, ".")
              /\ Level(access_map, LastDir, last.user)
                     = Level(pre, LastDir, last.user)
    /\ (/\ last.op = "grant"
        /\ last.acctype = NO_ACCESS
        /\ last.ret \in {1, 2}
        /\ Len(last.path) >= 2
        /\ last.path[Len(last.path)] = ".")
           => /\ NodeAt(access_map, last.user, LastDir, "*")
                     = NodeAt(pre, last.user, LastDir, "*")
              /\ \A q \in FramePaths :
                     (Below(LastDir, q) /\ q # LastDir)
                         => Level(access_map, q, last.user)
                                = Level(pre, q, last.user)

(* C10: for a branch with both "." and "*", in a tree whose root has a     *)
(* default level or has none, a path that ends at the branch evaluates to  *)
(* the "." of the branch and a path through the branch to a child it does  *)
(* not name evaluates to its "*".                                          *)
DotAtBranchStarBelow ==
    (/\ last.op = "eval"
     /\ last.user = "foo"
     /\ pre \in BranchDatabases)
        => /\ last.path = <<"data">>
               => (~last.err /\ I(last.acc) = NodeAt(pre, "foo", <<"data">>, "."))
           /\ last.path = <<"data", "b">>
               => (~last.err /\ I(last.acc) = NodeAt(pre, "foo", <<"data">>, "*"))

-----------------------------------------------------------------------------
(* Properties of the daemon with a restored database (StoreSpec).          *)

(* The last call granted, as an admin, the level that the call before it   *)
(* removed from the same path of the same tree with result 1.              *)
RoundTrip ==
    /\ last.op = "grant" /\ ~last.err /\ last.ply \in admins
    /\ last.acctype # NO_ACCESS
    /\ last.prior.removed
    /\ last.prior.path = last.path /\ last.prior.user = last.user
    /\ last.prior.held = last.acctype

(* C11: when a path that holds an explicit level L is revoked (result      *)
(* Removed) and L is granted at the path again, the effective level at the *)
(* path is what it was before the revoke.                                  *)
RevokeThenGrantRestores ==
    RoundTrip => Level(access_map, last.path, last.user) = last.prior.was

RevokeThenGrantRestoresWitness ==
    RoundTrip /\ last.ret = 1 /\ access_map # pre

(* A mapping without any key, at x or anywhere below it.                   *)
RECURSIVE HasEmptyBranch(_)
HasEmptyBranch(x) ==
    /\ mapp(x)
    /\ \/ keys(x) = {}
       \/ \E k \in keys(x) : HasEmptyBranch(x.m[k])

Completed == last.op \in {"grant", "group"} /\ ~last.err

NoneEmpty(db) == \A u \in keys(db) : ~HasEmptyBranch(db.m[u])

(* C12: after a completed grant, revoke or group-membership operation no   *)
(* tree of the database holds, at any depth, a branch with no child, no    *)
(* "." and no "*" (a mapping without any key); stated for an operation     *)
(* that started from a database without such a branch.                     *)
NoEmptyBranch == (Completed /\ NoneEmpty(pre)) => NoneEmpty(access_map)

(* The persisted membership list of 'user' in db, <<>> when there is none. *)
Persisted(db, user) ==
    IF mapp(Idx(db, user)) /\ arrayp(Idx(Idx(db, user), "?"))
    THEN Idx(Idx(db, user), "?").a
    ELSE <<>>

(* The persisted list of 'user' names a group that has no tree in db.      *)
Stale(db, user) ==
    \E i \in 1..Len(Persisted(db, user)) :
        ~Truthy(Idx(db, Persisted(db, user)[i]))

(* C13: when the persisted membership list of a player names a group whose *)
(* tree was deleted, the next query_groups for the player (here the one of *)
(* valid_access) removes the name from the persisted list and saves the    *)
(* database.                                                               *)
StaleGroupPruned ==
    (last.op = "check" /\ Stale(pre, last.user))
        => (~Stale(access_map, last.user) /\ last.saved)

(* The "?" node of the tree of 'user' in db, 0 when there is none.         *)
MembershipNode(db, user) ==
    IF mapp(Idx(db, user)) THEN Idx(Idx(db, user), "?") ELSE NIL

(* C14: no call of grant_access, whatever the pieces of its path, changes  *)
(* the persisted membership list of any player.                            *)
GrantKeepsMembership ==
    last.op = "grant"
        => \A u \in keys(pre) \cup keys(access_map) :
               MembershipNode(access_map, u) = MembershipNode(pre, u)

(* The last call was valid_access; get_access on the database it started   *)
(* from gives Level(pre, last.path, last.user).                            *)
CheckServed == last.op = "check"

(* C15: valid_access returns the path exactly when the effective level is  *)
(* at or above the required one and otherwise returns nil without          *)
(* faulting; the denial is logged exactly when nil is returned, and the    *)
(* database is left as it was.                                             *)
CheckDecides ==
    CheckServed
        => /\ ~last.err
           /\ last.ret = 1
                  <=> /\ ~Level(pre, last.path, last.user)[1]
                      /\ Level(pre, last.path, last.user)[2] >= last.acctype
           /\ last.logged <=> last.ret = 0
           /\ access_map = pre

(* The last call returned (no runtime error) and left a database that      *)
(* differs from the one it started from.                                   *)
ReturnedChanged ==
    last.op \in {"grant", "group", "check"} /\ ~last.err /\ access_map # pre

(* C16: an operation that changes the database (grant, revoke, group add,  *)
(* group remove, pruning of the membership) and returns has called         *)
(* save_db() after its changes.                                            *)
SavedBeforeReturn == ReturnedChanged => last.saved

SavedBeforeReturnWitness ==
    /\ ReturnedChanged /\ last.saved
    /\ last.op = "group" /\ last.ret = 1

(* The last call was a grant, revoke or group change whose save_db()       *)
(* failed.                                                                 *)
SaveFailed == last.op \in {"grant", "group"} /\ ~last.err /\ last.panic

(* What the last call does to the database it started from.               *)
Attempted ==
    IF last.op = "grant"
    THEN grant_access(pre, last.ply, last.path, last.user, last.acctype)
    ELSE grant_access_group(pre, last.ply, last.user, last.group, last.add)

(* The values grant_access and grant_access_group return for a change that *)
(* was made.                                                               *)
Successes == {1, 2}

(* C17: when save_db() fails during a grant, revoke or group change, the   *)
(* database in memory keeps the change and the caller gets a result that   *)
(* differs from the results of a change that was saved.                    *)
SaveFailureSurfaced ==
    SaveFailed => (access_map = Attempted.db /\ last.ret \notin Successes)

(* The entry that the pieces p name below x: 0 when a piece is absent or   *)
(* when a piece before the last is a leaf.                                 *)
RECURSIVE Entry(_, _)
Entry(x, p) ==
    IF p = <<>> THEN x
    ELSE IF ~mapp(x) THEN NIL
    ELSE Entry(Idx(x, Head(p)), Tail(p))

(* The last call was a revoke asked by a hard-coded admin.                 *)
RevokeServed ==
    last.op = "grant" /\ last.acctype = NO_ACCESS /\ last.ply \in admins

RevokeParts == _resolve(last.path, TRUE)

(* Nothing to revoke: no tree, a piece before the last absent or a leaf,   *)
(* or no entry under the last piece.                                       *)
NothingToRevoke ==
    \/ RevokeParts = <<>>
    \/ Entry(Idx(pre, last.user), RevokeParts) = NIL

(* C18: an authorized revoke returns 0 and leaves the database unchanged   *)
(* exactly when there is nothing to revoke; otherwise it deletes the entry *)
(* of the last piece and returns 2 when the principal is no longer in the  *)
(* database and 1 when it still is.                                        *)
RevokeOutcomes ==
    RevokeServed
        => /\ ~last.err
           /\ IF NothingToRevoke
              THEN last.ret = 0 /\ access_map = pre
              ELSE /\ Entry(Idx(access_map, last.user), RevokeParts) = NIL
                   /\ last.ret = IF Truthy(Idx(access_map, last.user))
                                 THEN 1 ELSE 2

(* C19: grant_access completes, for a hard-coded admin, with a result for  *)
(* every target, level and path, the root path included: it never ends in  *)
(* a runtime error.                                                        *)
GrantTotal == (last.op = "grant" /\ last.ply \in admins) => ~last.err

(* The last call was rejected: a grant as not authorized (-1) or as        *)
(* already having the level (0), a group change with a negative result.    *)
NotAuthorized == last.op = "grant" /\ ~last.err /\ last.ret = 0 - 1
AlreadyAtLevel ==
    last.op = "grant" /\ ~last.err /\ last.ret = 0
        /\ last.acctype # NO_ACCESS
GroupRejected == last.op = "group" /\ ~last.err /\ last.ret < 0

(* C20: a rejected grant or group change leaves the database unchanged and *)
(* calls no save_db(); a grant is rejected as already-at-level only when   *)
(* the level of the target at the path equals the requested level.         *)
RejectionsChangeNothing ==
    /\ (NotAuthorized \/ AlreadyAtLevel \/ GroupRejected)
           => (access_map = pre /\ ~last.saved)
    /\ AlreadyAtLevel
           => Level(pre, last.path, last.user) = <<FALSE, last.acctype>>

RejectionsChangeNothingWitness ==
    GroupRejected /\ last.ret = 0 - 2 /\ access_map = pre /\ ~last.saved

(* C21: a call of valid_access, for any path and principal, leaves the     *)
(* database as it was: every tree, and every node of every tree, is the    *)
(* same after the call as before it.                                       *)
EvaluationKeepsTrees == last.op = "check" => access_map = pre

(* A check served for a member of two groups, on a database that a call    *)
(* before it changed.                                                      *)
EvaluationKeepsTreesWitness ==
    /\ last.op = "check" /\ last.user = "bambi" /\ ~last.err
    /\ ops > 0
    /\ access_map = pre
    /\ Len(query_groups(pre, "bambi").res) = 2

(* The explicit membership list that the database holds for 'user'.        *)
Stored(db, user) ==
    IF mapp(Idx(db, user)) /\ arrayp(Idx(Idx(db, user), "?"))
    THEN Idx(Idx(db, user), "?").a
    ELSE <<>>

NoTwice(s) == \A i, k \in 1..Len(s) : s[i] = s[k] => i = k

GroupsOfUsers == {"aedil", "bambi", "foo", "frogo"}

(* C22: query_groups(player) returns the stored list in its order, then    *)
(* the automatic groups that exist, and no group name twice; for a group   *)
(* or a fake user it returns the empty list.                               *)
GroupsOfListsOnce ==
    /\ \A u \in GroupsOfUsers :
           /\ SubSeq(query_groups(access_map, u).res, 1,
                     Len(Stored(access_map, u))) = Stored(access_map, u)
           /\ \A i \in 1..Len(query_groups(access_map, u).res) :
                  i > Len(Stored(access_map, u))
                      => mapp(Idx(access_map,
                                  query_groups(access_map, u).res[i]))
           /\ NoTwice(query_groups(access_map, u).res)
    /\ \A u \in {"Elandar", "Arch_full", "root", "*"} :
           query_groups(access_map, u).res = <<>>

(* The paths on which the merged tree is compared with the evaluator.      *)
MergePaths ==
    { <<"data">>, <<"data", "b">>, <<"data", "c">>, <<"data", "b", "c">>,
      <<"doc">>, <<"log", "old">> }

(* The level that the maps give for the pieces p before the ruled cases,   *)
(* as a pair <<runtime error, level>>.                                     *)
Unruled(maps, p) ==
    <<Consult("", maps, p).err, Consult("", maps, p).gen>>

ListedMaps ==
    get_access_maps(pre, query_groups(pre, last.user).res, last.user)

(* Every level and every "*" that x holds, y holds too, at every depth.    *)
RECURSIVE Keeps(_, _)
Keeps(x, y) ==
    \A k \in keys(x) :
        IF mapp(Idx(x, k)) THEN mapp(Idx(y, k)) /\ Keeps(Idx(x, k), Idx(y, k))
        ELSE Idx(y, k) = Idx(x, k)

RECURSIVE MergeKeeps(_, _, _)
MergeKeeps(maps, i, dmap) ==
    i > Len(maps)
        \/ /\ Keeps(dmap, merge_maps(dmap, maps[i][2], 0))
           /\ MergeKeeps(maps, i + 1, merge_maps(dmap, maps[i][2], 0))

(* C23: the tree that show_access merges from the maps of a principal      *)
(* gives, under the evaluator, the level that the maps give before the     *)
(* ruled cases, for every path; and no merge step changes a leaf or a "*"  *)
(* that the merged tree already holds.                                     *)
MergedTreeAgrees ==
    (last.op = "show" /\ ~last.err)
        => /\ \A p \in MergePaths :
                  Unruled(<< <<"", last.view>> >>, p) = Unruled(ListedMaps, p)
           /\ MergeKeeps(ListedMaps, 1, EmptyMap)

(* The collapse of the pieces from the first to the last on a stack: a     *)
(* name is pushed, ".." pops (nothing at the root), "" and "." are passed. *)
RECURSIVE Collapse(_, _, _)
Collapse(parts, i, stack) ==
    IF i > Len(parts) THEN stack
    ELSE IF parts[i] \in {"", "."} THEN Collapse(parts, i + 1, stack)
    ELSE IF parts[i] = ".."
         THEN Collapse(parts, i + 1,
                       IF stack = <<>> THEN stack
                       ELSE SubSeq(stack, 1, Len(stack) - 1))
    ELSE Collapse(parts, i + 1, Append(stack, parts[i]))

(* C24: resolve of an absolute path returns the pieces that the stack      *)
(* collapse returns, none of them "", "." or ".."; resolve of the empty    *)
(* path returns 0.                                                         *)
ResolveCollapses ==
    last.op = "resolve"
        => IF last.text.empty THEN last.ret = NIL
           ELSE /\ last.ret = A(Collapse(last.text.parts, 1, <<>>))
                /\ \A i \in 1..Len(last.ret.a) :
                       last.ret.a[i] \notin {"", ".", ".."}

(* A path whose ".." pieces pop a name, meet the root and pass a ".".      *)
ResolveCollapsesWitness ==
    /\ last.op = "resolve"
    /\ last.text = Absolute(<<"..", "b", ".", "..", "c">>)
    /\ last.ret = A(<<"c">>)

(* What map k (1-based) answers for the part that the last round took,     *)
(* from the cursor and the default it had before the round.                *)
Answer(k) ==
    eval_map(last.parts[last.i], last.before.maps[k], last.before.dfls[k],
             last.i = Len(last.parts)).acc

DeepRevoke ==
    /\ RevokeServed /\ ~last.err /\ last.ret \in {1, 2}
    /\ Len(RevokeParts) >= 2

(* The branch that held the entry, before the call; what the deletion of   *)
(* the entry alone leaves of it; and what is in its place after the call.  *)
BranchPath == SubSeq(RevokeParts, 1, Len(RevokeParts) - 1)
BranchBefore == Entry(Idx(pre, last.user), BranchPath)
Remains == Put(BranchBefore, RevokeParts[Len(RevokeParts)], NIL)
BranchAfter == Entry(Idx(access_map, last.user), BranchPath)

(* What remains is at most the "." and "*" pair, with one value.           *)
Foldable ==
    /\ keys(Remains) # {}
    /\ keys(Remains) \subseteq {".", "*"}
    /\ \A k, n \in keys(Remains) : Idx(Remains, k) = Idx(Remains, n)

(* C26: after a revoke the branch that held the entry is a leaf only if    *)
(* what remains in it is "." and "*" with one value, or one of the two,    *)
(* and the leaf is that value; a branch in which a named child remains,    *)
(* or "." and "*" with different values, keeps all that remains in it.     *)
FoldOnlyPair ==
    DeepRevoke
        => /\ (Truthy(BranchAfter) /\ intp(BranchAfter))
                 => /\ Foldable
                    /\ \A k \in keys(Remains) : Idx(Remains, k) = BranchAfter
           /\ (keys(Remains) # {} /\ ~Foldable) => BranchAfter = Remains

(* C27: when a revoke leaves the branch that held the entry without        *)
(* entries, that branch is deleted from its parent and nothing else is:    *)
(* every other entry of its parent and of each ancestor is as before.      *)
EmptiedBranchOnly ==
    (DeepRevoke /\ keys(Remains) = {})
        => /\ Entry(Idx(access_map, last.user), BranchPath) = NIL
           /\ \A d \in 0..(Len(BranchPath) - 1) :
                  \A k \in keys(Entry(Idx(pre, last.user),
                                      SubSeq(BranchPath, 1, d)))
                             \ {BranchPath[d + 1]} :
                      Entry(Idx(access_map, last.user),
                            Append(SubSeq(BranchPath, 1, d), k))
                          = Entry(Idx(pre, last.user),
                                  Append(SubSeq(BranchPath, 1, d), k))

(* One map evaluated on its own over the parts from part i (1-based): its  *)
(* cursor advances on every part.  [map, dfl].                             *)
RECURSIVE Alone(_, _, _, _)
Alone(map, dfl, parts, i) ==
    IF i > Len(parts) THEN [map |-> map, dfl |-> dfl]
    ELSE Alone(eval_map(parts[i], map, dfl, i = Len(parts)).nxt,
               eval_map(parts[i], map, dfl, i = Len(parts)).acc,
               parts, i + 1)

(* The level that map k of the call gives when it is evaluated alone.      *)
AloneLevel(k) ==
    Alone(last.maps[k][2], IntIdx(last.maps[k][2], "*"), last.parts, 1).dfl

(* C28: within one call the map that ends a round is never later in the    *)
(* list than the map that ended the round before, and that map answers     *)
(* nonzero again; so the call returns what an evaluator that advances      *)
(* every map on every part returns: the level of the first map whose       *)
(* level, evaluated alone, is not 0.                                       *)
WinnerNeverLater ==
    /\ (last.op = "walk" /\ last.i >= 2 /\ ~last.st.err)
          => /\ last.st.j <= last.before.j
             /\ last.before.j < Len(last.maps)
                   => Answer(last.before.j + 1) # 0
    /\ (last.op = "done" /\ ~last.st.err /\ last.maps # <<>>)
          => /\ \A k \in 1..Len(last.maps) :
                    k - 1 < last.st.j => AloneLevel(k) = 0
             /\ last.st.j < Len(last.maps)
                   => AloneLevel(last.st.j + 1) = last.st.dfls[last.st.j + 1]

(* A call whose first part the default map ended and whose second part     *)
(* the own map ended.                                                      *)
WinnerNeverLaterWitness ==
    /\ last.op = "done" /\ ~last.err
    /\ last.js = <<1, 0>>
    /\ last.src = "foo"

(* What _get_access computed for the check that the last call was.         *)
CheckResult ==
    Evaluated(query_groups(pre, last.user), last.path, last.user, FALSE)

(* C29: whatever grants, revokes, resets and group changes came before, a  *)
(* check of a path of one piece or more ends with a map of the list that   *)
(* gave a level: j is inside the list and the level is not NO_ACCESS.      *)
EvaluationHasWinner ==
    (last.op = "check" /\ last.path # <<>>)
        => /\ CheckResult.j < CheckResult.mapc
           /\ ~CheckResult.err => CheckResult.acc # NO_ACCESS

(* C30: whatever calls came before, every group that query_groups returns  *)
(* for a player has a tree in the database, so every pair of the list      *)
(* that get_access_maps builds holds a mapping.                            *)
ReturnedGroupsHaveTrees ==
    \A u \in GroupsOfUsers :
        /\ \A i \in 1..Len(query_groups(access_map, u).res) :
               mapp(Idx(access_map, query_groups(access_map, u).res[i]))
        /\ \A i \in 1..Len(get_access_maps(access_map,
                                            query_groups(access_map, u).res,
                                            u)) :
               mapp(get_access_maps(access_map,
                                    query_groups(access_map, u).res, u)[i][2])

(* The pieces of s other than ".".                                         *)
RECURSIVE NoDots(_)
NoDots(s) ==
    IF s = <<>> THEN <<>>
    ELSE (IF Head(s) = "." THEN <<>> ELSE <<Head(s)>>) \o NoDots(Tail(s))

(* C31: for every revoke the pieces on which the right of the actor is     *)
(* evaluated (_resolve without the flag) are the pieces on which the entry *)
(* is looked up and deleted (_resolve with the flag) less their "."        *)
(* pieces.                                                                 *)
RevokeChecksWhereItDeletes ==
    (last.op = "grant" /\ last.acctype = NO_ACCESS)
        => NoDots(_resolve(last.path, TRUE)) = _resolve(last.path, FALSE)

(* The last call was a group change that succeeded: 2 for an add, 1 for a  *)
(* remove.                                                                 *)
GroupChanged == last.op = "group" /\ ~last.err /\ last.ret \in {1, 2}

(* C32: a group change that succeeds changes the stored list of the        *)
(* player by the named group alone: an add appends it, a remove takes it   *)
(* out, the other names stay in their order, and no automatic group that   *)
(* was not stored before is stored after.                                  *)
GroupChangeExact ==
    GroupChanged
        => Stored(access_map, last.user)
               = IF last.ret = 2
                 THEN Append(Stored(pre, last.user), last.group)
                 ELSE Without(Stored(pre, last.user), last.group)

(* Whether query_groups(user) on database db returns 'group'.              *)
Returns(db, user, group) == InSeq(group, query_groups(db, user).res)

(* After an add that succeeded query_groups returns the group, after a     *)
(* remove that succeeded it does not.                                      *)
GroupChangeShows ==
    GroupChanged
        => (Returns(access_map, last.user, last.group) <=> last.ret = 2)

(* A call other than a group change for the same player leaves that as it  *)
(* is.                                                                     *)
GroupChangeLasts ==
    (GroupChanged /\ ~(last'.op = "group" /\ last'.user = last.user))
        => (Returns(access_map', last.user, last.group)
                <=> Returns(access_map, last.user, last.group))

(* C33: after grant_access_group added a player to a group,                *)
(* query_groups(player) contains the group; after it removed the player    *)
(* from a group, query_groups(player) does not contain it; and so it       *)
(* stays until the next group change for that player.                      *)
GroupChangeHolds == [](GroupChangeShows) /\ [][GroupChangeLasts]_vars

====
